---- MODULE Spec2Model ----
(***************************************************************************)
(* The follower side of the oxia replication protocol:                     *)
(* server/follower_controller.go.  One followerController, its WAL and its *)
(* KV store.  Fence, Truncate and addEntry hold the controller's mutex     *)
(* from their first to their last statement, so a call of one of them is   *)
(* one atomic step, and calls made by different threads happen in the      *)
(* order in which they take the lock.  The WAL and the KV store are        *)
(* behind interfaces; the model gives them the behaviour their contracts   *)
(* state.                                                                  *)
(***************************************************************************)
EXTENDS Integers, Sequences, FiniteSets, TLC

----------------------------------------------------------------------------
(* Bounds of the model *)

\* request epochs and entry epochs range over 0..MaxEpochVal
MaxEpochVal == 2
\* entry offsets range over 0..MaxOffset
MaxOffset == 1
\* the WAL holds at most MaxWalLen entries
MaxWalLen == 2
\* the WAL found at construction holds at most MaxInitWal entries
MaxInitWal == 1
\* at most MaxApplied batches are passed to the KV store in one lifetime
MaxApplied == 2

Epochs == 0..MaxEpochVal
Offsets == 0..MaxOffset

----------------------------------------------------------------------------
(* Data model *)

NotMember == "NotMember"
Fenced == "Fenced"
Follower == "Follower"

ErrorInvalidEpoch == "InvalidEpoch"
ErrorInvalidStatus == "InvalidStatus"
\* an error returned by the WAL, by proto unmarshalling or by the KV store
ErrorIO == "IOError"
NoError == "nil"

EntryIds == [epoch : Epochs, offset : Offsets]
\* EntryId{}: the zero value, "no entry"
ZeroId == [epoch |-> 0, offset |-> 0]

\* The write batch a leader stores under an entry id.  An id names one entry
\* of the replicated log, so the model lets the id determine the batch.
BatchOf(id) == <<"batch", id.epoch, id.offset>>
LogEntry(id) == [entry_id |-> id, value |-> BatchOf(id)]
\* the entries a leader can send or a WAL can hold: EntryId{} names no entry
LogEntries == {LogEntry(id) : id \in EntryIds \ {ZeroId}}

\* the total order on EntryId: lexicographic on (epoch, offset)
IdLess(a, b) ==
    \/ a.epoch < b.epoch
    \/ a.epoch = b.epoch /\ a.offset < b.offset

IdLeq(a, b) == a = b \/ IdLess(a, b)

----------------------------------------------------------------------------
(* The WAL: a set of log entries keyed by entry id *)

WalIds(w) == {e.entry_id : e \in w}

\* the highest id of a set of ids, EntryId{} when there is none
MaxId(ids) ==
    IF ids = {} THEN ZeroId
    ELSE CHOOSE m \in ids : \A i \in ids : IdLeq(i, m)

\* Wal.GetHighestEntryOfEpoch: the highest entry whose epoch is <= e
GetHighestEntryOfEpoch(w, e) == MaxId({i \in WalIds(w) : i.epoch <= e})

\* Wal.Append, when it succeeds: the entry is stored; appending an id that is
\* already stored is accepted and changes nothing
AppendEntry(w, entry) ==
    IF entry.entry_id \in WalIds(w) THEN w ELSE w \cup {entry}

\* Wal.TruncateLog: drop every entry strictly after head, return the new WAL
\* and the id of its new physical head
TruncateLog(w, head) ==
    LET kept == {e \in w : IdLeq(e.entry_id, head)}
    IN  [wal |-> kept, head |-> MaxId(WalIds(kept))]

\* the entries of a set, in increasing id order
RECURSIVE SortById(_)
SortById(s) ==
    IF s = {} THEN << >>
    ELSE LET lo == CHOOSE e \in s : \A f \in s : IdLeq(e.entry_id, f.entry_id)
         IN  <<lo>> \o SortById(s \ {lo})

\* Wal.ReadSync(from, to, visit): the entries visited, from < id <= to
ReadRange(w, from, to) ==
    SortById({e \in w : IdLess(from, e.entry_id) /\ IdLeq(e.entry_id, to)})

----------------------------------------------------------------------------
(* Epoch/status guards *)

\* checkEpochLaterIn, had it compared with != : an older epoch passes
checkEpochLaterIn_Differs(reqEpoch, expected) ==
    IF reqEpoch = expected THEN ErrorInvalidEpoch ELSE NoError

\* checkEpochLaterIn, had it compared with < : the current epoch passes
checkEpochLaterIn_OrEqual(reqEpoch, expected) ==
    IF reqEpoch < expected THEN ErrorInvalidEpoch ELSE NoError

checkEpochLaterIn(reqEpoch, expected) ==
    IF reqEpoch <= expected THEN ErrorInvalidEpoch ELSE NoError

\* checkEpochEqualIn, had it accepted every epoch that is not older
checkEpochEqualIn_OrLater(reqEpoch, expected) ==
    IF reqEpoch < expected THEN ErrorInvalidEpoch ELSE NoError

checkEpochEqualIn(reqEpoch, expected) ==
    IF reqEpoch # expected THEN ErrorInvalidEpoch ELSE NoError

\* checkStatus, had it let a Follower pass as well
checkStatus_OrFollower(expected, actual) ==
    IF actual # expected /\ actual # Follower THEN ErrorInvalidStatus ELSE NoError

checkStatus(expected, actual) ==
    IF actual # expected THEN ErrorInvalidStatus ELSE NoError

\* addEntry's status test, had it been left out
addEntryStatus_Any(actual) == NoError

\* addEntry's status test
addEntryStatus(actual) ==
    IF actual # Follower /\ actual # Fenced THEN ErrorInvalidStatus ELSE NoError

\* addEntry's epoch test, had it been off by one
epochIsStale_OffByOne(reqEpoch, current) == reqEpoch + 1 < current

\* addEntry's epoch test: a request of a leader with a lower epoch is rejected
epochIsStale(reqEpoch, current) == reqEpoch < current

----------------------------------------------------------------------------
(* Requests and responses *)

NoIndex == [set |-> FALSE, id |-> ZeroId]
Index(id) == [set |-> TRUE, id |-> id]

\* FenceResponse, had it left HeadIndex unset
FenceResponse_NoHead(e, head) ==
    [epoch |-> e, index |-> NoIndex, invalid_epoch |-> FALSE]

\* FenceResponse{Epoch, HeadIndex}
FenceResponse(e, head) ==
    [epoch |-> e, index |-> Index(head), invalid_epoch |-> FALSE]

\* TruncateResponse{Epoch, HeadIndex}
TruncateResponse(e, head) ==
    [epoch |-> e, index |-> Index(head), invalid_epoch |-> FALSE]

\* the rejection of a stale request, had it left InvalidEpoch unset
InvalidEpochResponse_NoFlag(reqEpoch) ==
    [epoch |-> reqEpoch, index |-> NoIndex, invalid_epoch |-> FALSE]

\* AddEntryResponse{Epoch: req.Epoch, EntryId: nil, InvalidEpoch: true}
InvalidEpochResponse(reqEpoch) ==
    [epoch |-> reqEpoch, index |-> NoIndex, invalid_epoch |-> TRUE]

\* AddEntryResponse{Epoch: fc.epoch, EntryId: req.Entry.EntryId, InvalidEpoch: false}
EntryAddedResponse(e, id) ==
    [epoch |-> e, index |-> Index(id), invalid_epoch |-> FALSE]

\* a handler returned (nil, err)
NoResponse == [epoch |-> 0, index |-> NoIndex, invalid_epoch |-> FALSE]

----------------------------------------------------------------------------
(* State *)

VARIABLES
    epoch,        \* fc.epoch
    status,       \* fc.status
    headIndex,    \* fc.headIndex
    commitIndex,  \* fc.commitIndex
    wal,          \* the contents of fc.wal
    db,           \* the batches passed to fc.db.ProcessWrite, in call order
    last,         \* the last handler call: its request and what it returned
    fencedEpoch,  \* the epoch of the last Fence that returned a response, or 0
    closed        \* whether Close has been called

core == <<epoch, status, headIndex, commitIndex, wal, db>>
vars == <<epoch, status, headIndex, commitIndex, wal, db, last, fencedEpoch, closed>>

\* The record of a handler call.  epoch is the request's epoch; entry and
\* index are the request's entry id and its head_index or commit_index, and
\* are recorded when the WAL took them (Append or TruncateLog succeeded).  from is the
\* status the call found.  again tells that the call appended an entry and
\* repeats the request of the call before it, which returned no error.
Call(op, reqEpoch, entry, index, err, res) ==
    [op |-> op, epoch |-> reqEpoch, entry |-> entry, index |-> index,
     err |-> err, res |-> res, from |-> status,
     again |-> /\ entry.set
               /\ last.op = op
               /\ last.epoch = reqEpoch
               /\ last.entry = entry
               /\ last.index = index
               /\ last.err = NoError]

InitWals == {w \in SUBSET LogEntries : Cardinality(w) <= MaxInitWal}

\* NewFollowerController
Init ==
    /\ epoch = 0
    /\ status = NotMember
    /\ commitIndex = ZeroId
    /\ wal \in InitWals
    /\ headIndex = GetHighestEntryOfEpoch(wal, MaxEpochVal)
    /\ db = << >>
    /\ last = [op |-> "New", epoch |-> 0, entry |-> NoIndex, index |-> NoIndex,
               err |-> NoError, res |-> NoResponse, from |-> NotMember,
               again |-> FALSE]
    /\ fencedEpoch = 0
    /\ closed = FALSE

----------------------------------------------------------------------------
(* Handlers *)

\* followerController.Fence
Fence(reqEpoch) ==
    IF checkEpochLaterIn(reqEpoch, epoch) # NoError
    THEN /\ last' = Call("Fence", reqEpoch, NoIndex, NoIndex,
                         checkEpochLaterIn(reqEpoch, epoch), NoResponse)
         /\ UNCHANGED <<core, fencedEpoch>>
    ELSE /\ epoch' = reqEpoch
         /\ status' = Fenced
         /\ last' = Call("Fence", reqEpoch, NoIndex, NoIndex, NoError,
                         FenceResponse(reqEpoch, headIndex))
         /\ fencedEpoch' = reqEpoch
         /\ UNCHANGED <<headIndex, commitIndex, wal, db>>

\* followerController.Truncate
Truncate(reqEpoch) ==
    IF checkStatus(Fenced, status) # NoError
    THEN /\ last' = Call("Truncate", reqEpoch, NoIndex, NoIndex,
                         checkStatus(Fenced, status), NoResponse)
         /\ UNCHANGED core
    ELSE IF checkEpochEqualIn(reqEpoch, epoch) # NoError
    THEN /\ last' = Call("Truncate", reqEpoch, NoIndex, NoIndex,
                         checkEpochEqualIn(reqEpoch, epoch), NoResponse)
         /\ UNCHANGED core
    ELSE /\ status' = Follower
         /\ epoch' = reqEpoch
         /\ \/ \E reqHead \in EntryIds :
               LET t == TruncateLog(wal, reqHead)
               IN  /\ wal' = t.wal
                   /\ headIndex' = t.head
                   /\ last' = Call("Truncate", reqEpoch, NoIndex, Index(reqHead),
                                   NoError, TruncateResponse(reqEpoch, t.head))
                   /\ UNCHANGED <<commitIndex, db>>
            \/ \* Wal.TruncateLog returns an error
               /\ last' = Call("Truncate", reqEpoch, NoIndex, NoIndex, ErrorIO, NoResponse)
               /\ UNCHANGED <<headIndex, commitIndex, wal, db>>

\* followerController.Close: closes the WAL, then the KV store, and returns
\* the first error; no field of the controller is assigned
Close ==
    /\ closed' = TRUE
    /\ \E err \in {NoError, ErrorIO} :
          last' = Call("Close", 0, NoIndex, NoIndex, err, NoResponse)
    /\ UNCHANGED <<core, fencedEpoch>>

\* addEntry's call of Wal.ReadSync(oldCommitIndex, fc.commitIndex, ...), had
\* it read from the start of the log
CommitRange_FromStart(w, oldCommitIndex, newCommitIndex) ==
    ReadRange(w, ZeroId, newCommitIndex)

\* addEntry's call of Wal.ReadSync(oldCommitIndex, fc.commitIndex, ...): the
\* entries handed to the visitor
CommitRange(w, oldCommitIndex, newCommitIndex) ==
    ReadRange(w, oldCommitIndex, newCommitIndex)

\* the batches of the first n entries of a sequence of log entries
Batches(entries, n) == [i \in 1..n |-> entries[i].value]

\* One iteration of the loop of followerController.AddEntries: Recv returns a
\* request with epoch reqEpoch, addEntry handles it under the lock, and the
\* loop sends the response or returns the error.  The request's entry and
\* commit index are drawn where addEntry first reads them.
addEntry(reqEpoch) ==
    IF addEntryStatus(status) # NoError
    THEN /\ last' = Call("AddEntry", reqEpoch, NoIndex, NoIndex,
                         addEntryStatus(status), NoResponse)
         /\ UNCHANGED core
    ELSE IF epochIsStale(reqEpoch, epoch)
    THEN /\ last' = Call("AddEntry", reqEpoch, NoIndex, NoIndex, NoError,
                         InvalidEpochResponse(reqEpoch))
         /\ UNCHANGED core
    ELSE /\ status' = Follower
         /\ epoch' = reqEpoch
         /\ \/ \E reqEntry \in LogEntries, reqCommit \in EntryIds :
               LET w == AppendEntry(wal, reqEntry)
                   oldCommitIndex == commitIndex
                   range == CommitRange(w, oldCommitIndex, reqCommit)
               IN  /\ Cardinality(w) <= MaxWalLen
                   /\ wal' = w
                   /\ headIndex' = reqEntry.entry_id
                   /\ commitIndex' = reqCommit
                   /\ \/ /\ Len(db) + Len(range) <= MaxApplied
                         /\ db' = db \o Batches(range, Len(range))
                         /\ last' = Call("AddEntry", reqEpoch,
                                         Index(reqEntry.entry_id), Index(reqCommit),
                                         NoError,
                                         EntryAddedResponse(reqEpoch, reqEntry.entry_id))
                      \/ \* ReadSync returns an error: its own, or that of the
                         \* visitor (unmarshal, ProcessWrite) after n entries
                         \E n \in 0..Len(range) :
                            /\ Len(db) + n <= MaxApplied
                            /\ db' = db \o Batches(range, n)
                            /\ last' = Call("AddEntry", reqEpoch,
                                            Index(reqEntry.entry_id), Index(reqCommit),
                                            ErrorIO, NoResponse)
            \/ \* Wal.Append returns an error
               /\ last' = Call("AddEntry", reqEpoch, NoIndex, NoIndex, ErrorIO, NoResponse)
               /\ UNCHANGED <<headIndex, commitIndex, wal, db>>

----------------------------------------------------------------------------
(* Specification *)

\* a Fence request arrives
FenceCall == \E e \in Epochs : Fence(e) /\ UNCHANGED closed

\* a Truncate request arrives
TruncateCall == \E e \in Epochs : Truncate(e) /\ UNCHANGED <<fencedEpoch, closed>>

\* the AddEntries stream delivers a request
AddEntriesStep == \E e \in Epochs : addEntry(e) /\ UNCHANGED <<fencedEpoch, closed>>

Next ==
    \/ FenceCall
    \/ TruncateCall
    \/ AddEntriesStep

Spec == Init /\ [][Next]_vars

\* the same controller, with Close among the calls it receives
NextClose ==
    \/ FenceCall
    \/ TruncateCall
    \/ AddEntriesStep
    \/ Close

SpecClose == Init /\ [][NextClose]_vars

----------------------------------------------------------------------------
(* Properties.  A step is the handler call that last' records; the unprimed *)
(* variables are the controller's state before the call.                   *)

\* the step is a call of the named handler
IsCall(op) == last'.op = op

\* the step is an AddEntry call that appended and applied without error
AddEntryAccepted ==
    IsCall("AddEntry") /\ last'.err = NoError /\ ~last'.res.invalid_epoch

\* C1: over every Fence, Truncate and AddEntry call, accepted or rejected,
\* the epoch after the call is >= the epoch before it.
C1_EpochNeverDecreases == [][epoch' >= epoch]_vars

\* a stale AddEntry was rejected by a controller whose epoch was raised twice
C1_Witness ==
    /\ epoch = MaxEpochVal
    /\ fencedEpoch < epoch
    /\ last.op = "Fence"
    /\ last.err = ErrorInvalidEpoch
    /\ last.epoch < epoch

\* C2: in every reachable state commit_index <= head_index in the
\* lexicographic order on (epoch, offset).
C2_CommitLeqHead == IdLeq(commitIndex, headIndex)

\* C3: once a Fence with epoch E has returned a response, every AddEntry
\* request with a lower epoch is answered invalid_epoch = true and changes
\* neither the WAL, the KV store, head_index nor commit_index.
C3_StaleLeaderRejectedAfterFence ==
    [][(IsCall("AddEntry") /\ last'.epoch < fencedEpoch) =>
          /\ last'.err = NoError
          /\ last'.res.invalid_epoch
          /\ last'.res.index = NoIndex
          /\ UNCHANGED <<wal, db, headIndex, commitIndex>>]_vars

\* a request of the leader fenced off was rejected by a follower
C3_Witness ==
    /\ last.op = "AddEntry"
    /\ last.epoch < fencedEpoch
    /\ last.epoch > 0
    /\ last.res.invalid_epoch
    /\ last.from = Follower

\* C4: a Fence with an epoch E above the current one is accepted from every
\* status; afterwards epoch = E and status = Fenced, head_index,
\* commit_index, the WAL and the KV store are unchanged, and the response
\* is {epoch: E, head_index: the current head_index}.
C4_FenceAccepted ==
    [][(IsCall("Fence") /\ last'.epoch > epoch) =>
          /\ last'.err = NoError
          /\ epoch' = last'.epoch
          /\ status' = Fenced
          /\ UNCHANGED <<headIndex, commitIndex, wal, db>>
          /\ last'.res = [epoch |-> last'.epoch, index |-> Index(headIndex),
                          invalid_epoch |-> FALSE]]_vars

\* a follower holding entries was fenced
C4_Witness ==
    /\ last.op = "Fence"
    /\ last.err = NoError
    /\ last.from = Follower
    /\ headIndex # ZeroId
    /\ status = Fenced

\* C5: a Fence with an epoch <= the current one fails with InvalidEpoch and
\* leaves epoch, status, head_index, commit_index, the WAL and the KV store
\* as they were.
C5_FenceRejected ==
    [][(IsCall("Fence") /\ last'.epoch <= epoch) =>
          /\ last'.err = ErrorInvalidEpoch
          /\ UNCHANGED core]_vars

\* a Fence with the current epoch was rejected
C5_Witness ==
    /\ last.op = "Fence"
    /\ last.err = ErrorInvalidEpoch
    /\ last.epoch = epoch
    /\ epoch > 0

\* C6: a Truncate is rejected with InvalidStatus whenever status # Fenced,
\* whatever its epoch, and with InvalidEpoch when status = Fenced and its
\* epoch differs from the current one; either way the WAL is not truncated
\* and epoch, status, head_index and commit_index are unchanged.
C6_TruncateRejected ==
    [][IsCall("Truncate") =>
          /\ status # Fenced =>
                /\ last'.err = ErrorInvalidStatus
                /\ last'.index = NoIndex
                /\ UNCHANGED core
          /\ (status = Fenced /\ last'.epoch # epoch) =>
                /\ last'.err = ErrorInvalidEpoch
                /\ last'.index = NoIndex
                /\ UNCHANGED core]_vars

\* a Truncate with epoch 1 reached a controller that is not a member
C6_Witness ==
    /\ last.op = "Truncate"
    /\ last.err = ErrorInvalidStatus
    /\ last.from = NotMember
    /\ last.epoch > epoch
    /\ wal # {}

\* C7: after an accepted Truncate status = Follower, head_index is the id
\* the WAL returned (the head of the truncated log), the response is
\* {epoch: req.epoch, head_index: that id}, and epoch and commit_index are
\* the same as before.
C7_TruncateAccepted ==
    [][(IsCall("Truncate") /\ last'.err = NoError) =>
          /\ status = Fenced
          /\ last'.epoch = epoch
          /\ status' = Follower
          /\ wal' = TruncateLog(wal, last'.index.id).wal
          /\ headIndex' = TruncateLog(wal, last'.index.id).head
          /\ last'.res = [epoch |-> last'.epoch, index |-> Index(headIndex'),
                          invalid_epoch |-> FALSE]
          /\ epoch' = epoch
          /\ commitIndex' = commitIndex]_vars

\* a Truncate dropped entries and kept others
C7_Witness ==
    /\ last.op = "Truncate"
    /\ last.err = NoError
    /\ wal # {}
    /\ headIndex # last.index.id
    /\ commitIndex # ZeroId

\* C8: an AddEntry with an epoch below the current one, in status Fenced or
\* Follower, is answered {epoch: req.epoch, entry_id: none, invalid_epoch:
\* true}; nothing is appended or applied, and epoch, status, head_index and
\* commit_index are unchanged.
C8_StaleAddEntryRejected ==
    [][(IsCall("AddEntry") /\ status \in {Fenced, Follower} /\ last'.epoch < epoch) =>
          /\ last'.err = NoError
          /\ last'.res = [epoch |-> last'.epoch, index |-> NoIndex,
                          invalid_epoch |-> TRUE]
          /\ UNCHANGED core]_vars

\* a fenced controller rejected a request of an older epoch that is not 0
C8_Witness ==
    /\ last.op = "AddEntry"
    /\ last.res.invalid_epoch
    /\ last.from = Fenced
    /\ last.epoch > 0
    /\ wal # {}

C10_CommitIndexNeverRegresses ==
    [][/\ IdLeq(commitIndex, commitIndex')
       /\ (AddEntryAccepted /\ IdLeq(last'.index.id, commitIndex)) =>
             /\ db' = db
             /\ commitIndex' = commitIndex]_vars

\* the batches the step passed to the KV store
AppliedByStep == SubSeq(db', Len(db) + 1, Len(db'))

\* C11: the batches passed to the KV store are the values of the WAL
\* entries with id <= commit_index, in increasing id order, each once.
C11_AppliedIsCommittedPrefix ==
    LET committed == SortById({e \in wal : IdLeq(e.entry_id, commitIndex)})
    IN  db = Batches(committed, Len(committed))

\* C12: an AddEntry processed in status NotMember fails with InvalidStatus,
\* gets no response, and leaves the WAL, the KV store, epoch, status,
\* head_index and commit_index unchanged, whatever its epoch.
C12_NotMemberRejectsAddEntry ==
    [][(IsCall("AddEntry") /\ status = NotMember) =>
          /\ last'.err = ErrorInvalidStatus
          /\ last'.res = NoResponse
          /\ UNCHANGED core]_vars

\* a controller that is not a member and holds a log rejected an AddEntry of
\* an epoch above its own
C12_Witness ==
    /\ last.op = "AddEntry"
    /\ last.err = ErrorInvalidStatus
    /\ last.from = NotMember
    /\ last.epoch > epoch
    /\ wal # {}

\* C13: after Close, every call of Fence, Truncate or AddEntries returns an
\* error and changes neither epoch, status, head_index, commit_index, the
\* WAL nor the KV store.
C13_ClosedControllerRejectsCalls ==
    [][(closed /\ last'.op \in {"Fence", "Truncate", "AddEntry"}) =>
          /\ last'.err # NoError
          /\ UNCHANGED core]_vars

C15_FencedRejectsAddEntry ==
    [][(IsCall("AddEntry") /\ status = Fenced) =>
          /\ wal' = wal
          /\ ~(last'.err = NoError /\ ~last'.res.invalid_epoch)]_vars

\* C16: an AddEntry whose entry id has another epoch than the request fails
\* and appends nothing, so every entry appended has the epoch of its
\* request, which is >= the controller's epoch.
C16_EntryEpochMismatchRejected ==
    [][IsCall("AddEntry") =>
          /\ (last'.entry.set /\ last'.entry.id.epoch # last'.epoch) =>
                 /\ last'.err # NoError
                 /\ wal' = wal
          /\ \A e \in wal' \ wal :
                 /\ e.entry_id.epoch = last'.epoch
                 /\ e.entry_id.epoch >= epoch]_vars

\* C17: when the apply of an AddEntry fails, the handler returns the error
\* and commit_index covers no entry beyond the old commit_index that was
\* not passed to the KV store.
C17_CommitOnlyAfterApply ==
    [][(IsCall("AddEntry") /\ last'.err # NoError) =>
          \A e \in wal' :
             (IdLess(commitIndex, e.entry_id) /\ IdLeq(e.entry_id, commitIndex')) =>
                \E i \in 1..Len(AppliedByStep) : AppliedByStep[i] = e.value]_vars

\* C18: when Wal.TruncateLog fails, Truncate returns the error and epoch,
\* status (still Fenced), head_index and commit_index are as before.
C18_TruncateErrorKeepsState ==
    [][(IsCall("Truncate") /\ last'.err = ErrorIO) =>
          /\ status' = Fenced
          /\ UNCHANGED <<epoch, status, headIndex, commitIndex>>]_vars

\* C19: between calls head_index is the id of the highest entry in the WAL,
\* or (0,0) when the WAL is empty.
C19_HeadIsHighestWalEntry == headIndex = MaxId(WalIds(wal))

\* C20: status = NotMember if and only if epoch = 0.
C20_NotMemberIffEpochZero == (status = NotMember) <=> (epoch = 0)

\* a follower that left NotMember had a call fail and a Truncate rejected
C20_Witness ==
    /\ epoch > 0
    /\ status = Follower
    /\ last.op = "Truncate"
    /\ last.err = ErrorInvalidStatus
    /\ wal # {}

====
